---- MODULE Spec2Model ----
(***************************************************************************)
(* A model of workbench-app/src/components/Assistants/AssistantEdit.tsx:   *)
(* the AssistantEdit component (the configuration form controller) and its *)
(* helper extractDefaultsFromSchema.                                       *)
(*                                                                         *)
(* JavaScript values are tagged tuples, so that values of different kinds  *)
(* can be compared: <<"undefined">>, <<"num", n>>, <<"obj", f>> (f a       *)
(* function from keys to values) and, inside a heap, <<"ref", a>>.         *)
(***************************************************************************)
EXTENDS Integers, Sequences, FiniteSets, TLC

(***************************************************************************)
(* Bounds of the model.                                                    *)
(***************************************************************************)
\* updateConfig requests one session may send
MaxSaves == 2
\* numeric values a document field or a declared default may take: 1..MaxValue
MaxValue == 2

(***************************************************************************)
(* Values.                                                                 *)
(***************************************************************************)
Undefined == <<"undefined">>
Num(n) == <<"num", n>>
Obj(f) == <<"obj", f>>
Ref(a) == <<"ref", a>>
EmptyMap == << >>
IsObj(v) == v[1] = "obj"
IsRef(v) == v[1] = "ref"

\* JavaScript truthiness of a value: undefined and 0 are falsy, objects are truthy
Truthy(v) == v # Undefined /\ v # Num(0)

\* obj[key], undefined when the key is absent
Get(o, k) == IF k \in DOMAIN o[2] THEN o[2][k] ELSE Undefined

\* f with key k set to v
Put(f, k, v) == [x \in DOMAIN f \cup {k} |-> IF x = k THEN v ELSE f[x]]

(***************************************************************************)
(* Utility.deepDiff (libs/Utility): for every key present in either        *)
(* operand, skip it when both values are structurally equal (recursively   *)
(* for nested mappings), record it as changed otherwise.                   *)
(***************************************************************************)
RECURSIVE deepEqual(_, _)
deepEqual(a, b) ==
    IF IsObj(a) /\ IsObj(b)
    THEN /\ DOMAIN a[2] = DOMAIN b[2]
         /\ \A k \in DOMAIN a[2] : deepEqual(a[2][k], b[2][k])
    ELSE a = b

deepDiff(obj1, obj2) ==
    {k \in DOMAIN obj1[2] \cup DOMAIN obj2[2] : ~deepEqual(Get(obj1, k), Get(obj2, k))}

(***************************************************************************)
(* JSON schemas.  A schema node is a record of the fields the traversal    *)
(* reads: default (Undefined, a number, or a reference to an object of the *)
(* heap), properties (Undefined or <<"props", s>>, s the sequence of       *)
(* <<key, node>> in the object's key order), ref (the $ref string as       *)
(* <<"str", segments>>, its '/'-separated segments, or Undefined) and defs *)
(* (the $defs table <<"map", f>> or Undefined).                            *)
(***************************************************************************)
Node(d, p, r) == [default |-> d, properties |-> p, ref |-> r, defs |-> Undefined]
Props(s) == <<"props", s>>
RefStr(segs) == <<"str", segs>>
Leaf(d) == Node(d, Undefined, Undefined)
WithDefs(n, f) == [n EXCEPT !.defs = <<"map", f>>]

\* the objects the schemas' default values point to, and the output root
DefaultsRoot == 0
SchemaObject == DefaultsRoot + 1
SchemaHeap == (SchemaObject :> [c |-> Num(1)])
InitHeap == (DefaultsRoot :> EmptyMap) @@ SchemaHeap

(***************************************************************************)
(* extractDefaultsFromSchema.  The state of one call: the frames still to  *)
(* run (the recursion of traverse, depth first), the heap of objects, and  *)
(* the number of console.error diagnostics.                                *)
(***************************************************************************)
\* { ...v }: an object's own keys, none for a number
Spread(h, v) == IF IsRef(v) THEN h[v[2]] ELSE EmptyMap

FreshAddress(h) == CHOOSE a \in 0..Cardinality(DOMAIN h) : a \notin DOMAIN h

\* a loop that puts an empty object at every intermediate level
RECURSIVE setDefaultLoopEmpty(_, _, _, _, _)
setDefaultLoopEmpty(h, current, path, i, value) ==
    IF i < Len(path)
    THEN LET key  == path[i]
             a    == FreshAddress(h)
             h2   == (a :> EmptyMap) @@ [h EXCEPT ![current] = Put(@, key, Ref(a))]
         IN  setDefaultLoopEmpty(h2, a, path, i + 1, value)
    ELSE LET key == IF Len(path) = 0 THEN "undefined" ELSE path[Len(path)]
         IN  [h EXCEPT ![current] = Put(@, key, value)]

\* a loop that descends into an existing object without copying it
RECURSIVE setDefaultLoopInPlace(_, _, _, _, _)
setDefaultLoopInPlace(h, current, path, i, value) ==
    IF i < Len(path)
    THEN LET key  == path[i]
             old  == IF key \in DOMAIN h[current] THEN h[current][key] ELSE Undefined
             a    == FreshAddress(h)
             h2   == (a :> EmptyMap) @@ [h EXCEPT ![current] = Put(@, key, Ref(a))]
         IN  IF IsRef(old)
             THEN setDefaultLoopInPlace(h, old[2], path, i + 1, value)
             ELSE setDefaultLoopInPlace(h2, a, path, i + 1, value)
    ELSE LET key == IF Len(path) = 0 THEN "undefined" ELSE path[Len(path)]
         IN  [h EXCEPT ![current] = Put(@, key, value)]

\* the loop and the final write of setDefault; i counts from 1
RECURSIVE setDefaultLoop(_, _, _, _, _)
setDefaultLoop(h, current, path, i, value) ==
    IF i < Len(path)
    THEN LET key  == path[i]
             old  == IF key \in DOMAIN h[current] THEN h[current][key] ELSE Undefined
             a    == FreshAddress(h)
             copy == IF ~Truthy(old) THEN EmptyMap ELSE Spread(h, old)
             h2   == (a :> copy) @@ [h EXCEPT ![current] = Put(@, key, Ref(a))]
         IN  setDefaultLoop(h2, a, path, i + 1, value)
    ELSE LET key == IF Len(path) = 0 THEN "undefined" ELSE path[Len(path)]
         IN  [h EXCEPT ![current] = Put(@, key, value)]

setDefault(h, obj, path, value) == setDefaultLoop(h, obj, path, 1, value)

\* schema.$ref.replace(/^#\/\$defs\//, '').split('/')
RefPath(segs) ==
    IF Len(segs) >= 3 /\ segs[1] = "#" /\ segs[2] = "$defs"
    THEN SubSeq(segs, 3, Len(segs))
    ELSE segs

\* acc?.[key] on the $defs table, a schema node or a properties map
Index(acc, key) ==
    IF acc = Undefined THEN Undefined
    ELSE IF acc[1] = "map"
         THEN IF key \in DOMAIN acc[2] THEN <<"node", acc[2][key]>> ELSE Undefined
    ELSE IF acc[1] = "node"
         THEN IF key = "properties" THEN acc[2].properties ELSE Undefined
    ELSE IF acc[1] = "props"
         THEN LET hit == {i \in 1..Len(acc[2]) : acc[2][i][1] = key}
              IN  IF hit = {} THEN Undefined ELSE <<"node", acc[2][CHOOSE i \in hit : TRUE][2]>>
    ELSE Undefined

\* refPath.reduce((acc, key) => acc?.[key], rootSchema.$defs)
RECURSIVE Reduce(_, _)
Reduce(acc, keys) == IF keys = << >> THEN acc ELSE Reduce(Index(acc, Head(keys)), Tail(keys))

ResolveRef(rootSchema, ref) == Reduce(rootSchema.defs, RefPath(ref[2]))

TraverseFrame(node, path) == <<"traverse", node, path>>
ResolveFrame(ref, path) == <<"resolve", ref, path>>

\* a traverse whose $ref branch recurses into the node itself
traverseSameNode(st, node, path) ==
    LET h1 == IF node.default # Undefined
              THEN setDefault(st.heap, DefaultsRoot, path, node.default)
              ELSE st.heap
        ps == IF node.properties # Undefined
              THEN [i \in 1..Len(node.properties[2]) |->
                      TraverseFrame(node.properties[2][i][2],
                                    Append(path, node.properties[2][i][1]))]
              ELSE << >>
        rs == IF node.ref # Undefined THEN <<TraverseFrame(node, path)>> ELSE << >>
    IN  [st EXCEPT !.heap = h1, !.stack = ps \o rs \o Tail(st.stack)]

\* a traverse that resolves the $ref before it visits the properties
traverseRefFirst(st, node, path) ==
    LET h1 == IF node.default # Undefined
              THEN setDefault(st.heap, DefaultsRoot, path, node.default)
              ELSE st.heap
        ps == IF node.properties # Undefined
              THEN [i \in 1..Len(node.properties[2]) |->
                      TraverseFrame(node.properties[2][i][2],
                                    Append(path, node.properties[2][i][1]))]
              ELSE << >>
        rs == IF node.ref # Undefined THEN <<ResolveFrame(node.ref, path)>> ELSE << >>
    IN  [st EXCEPT !.heap = h1, !.stack = rs \o ps \o Tail(st.stack)]

\* one call of traverse up to its recursive calls, which become frames
traverse(st, node, path) ==
    LET h1 == IF node.default # Undefined
              THEN setDefault(st.heap, DefaultsRoot, path, node.default)
              ELSE st.heap
        ps == IF node.properties # Undefined
              THEN [i \in 1..Len(node.properties[2]) |->
                      TraverseFrame(node.properties[2][i][2],
                                    Append(path, node.properties[2][i][1]))]
              ELSE << >>
        rs == IF node.ref # Undefined THEN <<ResolveFrame(node.ref, path)>> ELSE << >>
    IN  [st EXCEPT !.heap = h1, !.stack = ps \o rs \o Tail(st.stack)]

\* a $ref branch that gives the traversal up at an unresolved reference
resolveOrAbort(st, rootSchema, ref, path) ==
    LET refSchema == ResolveRef(rootSchema, ref)
    IN  IF refSchema # Undefined /\ refSchema[1] = "node"
        THEN [st EXCEPT !.stack = <<TraverseFrame(refSchema[2], path)>> \o Tail(st.stack)]
        ELSE [st EXCEPT !.stack = << >>, !.errors = @ + 1]

\* the $ref branch of traverse
resolve(st, rootSchema, ref, path) ==
    LET refSchema == ResolveRef(rootSchema, ref)
    IN  IF refSchema # Undefined /\ refSchema[1] = "node"
        THEN [st EXCEPT !.stack = <<TraverseFrame(refSchema[2], path)>> \o Tail(st.stack)]
        ELSE [st EXCEPT !.stack = Tail(st.stack), !.errors = @ + 1]

StepFrame(st, rootSchema) ==
    LET top == Head(st.stack)
    IN  IF top[1] = "traverse" THEN traverse(st, top[2], top[3])
        ELSE resolve(st, rootSchema, top[2], top[3])

RECURSIVE RunFrames(_, _)
RunFrames(st, rootSchema) ==
    IF st.stack = << >> THEN st ELSE RunFrames(StepFrame(st, rootSchema), rootSchema)

\* the document a heap value stands for
RECURSIVE Deref(_, _)
Deref(h, v) ==
    IF IsRef(v) THEN Obj([k \in DOMAIN h[v[2]] |-> Deref(h, h[v[2]][k])]) ELSE v

StartState(rootSchema) ==
    [stack |-> <<TraverseFrame(rootSchema, << >>)>>, heap |-> InitHeap, errors |-> 0]

extractDefaultsFromSchema(rootSchema) ==
    LET st == RunFrames(StartState(rootSchema), rootSchema)
    IN  Deref(st.heap, Ref(DefaultsRoot))

(***************************************************************************)
(* The state.  The AssistantEdit component: the getConfig query            *)
(* (isLoadingConfig, configError, config), the two pieces of React state   *)
(* (formData, isDirty), the updateConfig requests that have no response    *)
(* yet, and the remote service's document.  One call of                    *)
(* extractDefaultsFromSchema: schema, stack, heap, errors, result, pc.     *)
(***************************************************************************)
VARIABLES
    isLoadingConfig,  \* the query has no data yet
    configError,      \* the query's error
    config,           \* the query's data: Undefined or <<"data", document>>
    formData,         \* Undefined or the form's document
    formRef,          \* which object formData is: "none", "config", "defaults", "form"
    isDirty,
    inflight,         \* updateConfig requests sent and not yet answered
    sent,             \* number of updateConfig requests sent so far
    server,           \* the remote service's document
    refetching,       \* a refetch of the query is under way
    event,            \* the last step taken
    schema,           \* the argument of extractDefaultsFromSchema
    stack,            \* the calls of traverse still to run
    heap,             \* objects by address: the defaults being built, the schema's default objects
    errors,           \* console.error calls
    result,           \* the returned document
    pc                \* "idle", "run", "done"

formVars == <<isLoadingConfig, configError, config, formData, formRef, isDirty,
              inflight, sent, server, refetching, event>>
extractVars == <<schema, stack, heap, errors, result, pc>>
vars == <<formVars, extractVars>>

(***************************************************************************)
(* The documents of the model.                                             *)
(***************************************************************************)
RefY == RefStr(<<"#", "$defs", "Y">>)
RefW == RefStr(<<"#", "$defs", "W">>)
RefZ == RefStr(<<"#", "$defs", "Z">>)
RefOther == RefStr(<<"#", "definitions", "Y">>)

\* { properties: { x: { default: 1 }, y: { $ref: '#/$defs/Y' } }, $defs: { Y: { default: 2 } } }
ExampleSchema ==
    WithDefs(Node(Undefined,
                  Props(<< <<"x", Leaf(Num(1))>>, <<"y", Node(Undefined, Undefined, RefY)>> >>),
                  Undefined),
             [Y |-> Leaf(Num(2))])

Values == {Num(n) : n \in 1..MaxValue}
FormValues ==
    {Obj([x |-> v]) : v \in Values}
        \cup {Obj(EmptyMap), Obj([x |-> Num(1), y |-> Num(2)]), Obj([x |-> Obj([y |-> Num(1)])])}
ServerConfigs == {Obj([x |-> Num(1)]), Obj([x |-> Num(1), y |-> Num(2)])}
\* the schemas the service serves: none, or the example's with hints of its own
ServedSchemas ==
    {[jsonSchema |-> Undefined, uiSchema |-> Obj(EmptyMap)],
     [jsonSchema |-> <<"schema", ExampleSchema>>,
      uiSchema |-> Obj(("ui:title" :> Num(1)) @@ ("ui:submitButtonOptions" :> Num(2)))]}

Data(c) == c[2]

(***************************************************************************)
(* Rendering.                                                              *)
(***************************************************************************)
\* a render without the throw of line 55
RenderedDespiteError == ~isLoadingConfig /\ config # Undefined

\* line 55 throws; line 87 returns <Loading />: the form and its buttons exist otherwise
Rendered == ~configError /\ ~isLoadingConfig /\ config # Undefined

\* the useMemo of lines 72-77
defaults ==
    IF config # Undefined /\ Data(config).jsonSchema # Undefined
    THEN extractDefaultsFromSchema(Data(config).jsonSchema[2])
    ELSE Obj(EmptyMap)

\* the uiSchema handed to the Form, lines 148-158
RenderedUiSchema(c, dirty) ==
    LET base == ("ui:title" :> Num(0)) @@ Data(c).uiSchema[2]
    IN  Obj(Put(base, "ui:submitButtonOptions", Obj([norender |-> Num(1),
                                                       disabled |-> Num(IF dirty THEN 0 ELSE 1)])))

\* a dirty effect that sets the flag and never clears it
dirtyEffectNeverClears(c, fd, dirty) ==
    IF c # Undefined /\ Truthy(Data(c).config) /\ Truthy(fd)
    THEN dirty \/ deepDiff(Data(c).config, fd) # {}
    ELSE dirty

\* the effect of lines 79-85, run with config c and formData fd; dirty is isDirty before
dirtyEffect(c, fd, dirty) ==
    IF c # Undefined /\ Truthy(Data(c).config) /\ Truthy(fd)
    THEN deepDiff(Data(c).config, fd) # {}
    ELSE dirty

\* a load effect that leaves a form with unsaved edits as it is
QuerySettledKeepsEdits(c) ==
    LET fd == IF c = Undefined THEN Undefined ELSE Data(c).config
        d1 == dirtyEffect(c, formData, isDirty)
    IN  IF isDirty
        THEN /\ formData' = formData
             /\ formRef' = formRef
             /\ isDirty' = d1
        ELSE /\ formData' = fd
             /\ formRef' = "config"
             /\ isDirty' = dirtyEffect(c, fd, d1)

\* the effect of lines 60-63 and the renders that follow a change of the query's
\* data to c: the dirty effect runs with the old formData, then with the new one
QuerySettled(c) ==
    LET fd == IF c = Undefined THEN Undefined ELSE Data(c).config
        d1 == dirtyEffect(c, formData, isDirty)
    IN  /\ formData' = fd
        /\ formRef' = "config"
        /\ isDirty' = dirtyEffect(c, fd, d1)

\* setFormData(fd) with an object that is (fresh) or is not a new one, and the
\* dirty effect a new object sets off
SetFormData(fd, ref, fresh) ==
    /\ formData' = fd
    /\ formRef' = ref
    /\ isDirty' = IF fresh THEN dirtyEffect(config, fd, isDirty) ELSE isDirty

\* a request of the edited config alone
MergedConfigOnly(c, updatedConfig) ==
    [config |-> updatedConfig, jsonSchema |-> Undefined, uiSchema |-> Obj(EmptyMap)]

\* { ...config, config: updatedConfig }
Merged(c, updatedConfig) == [Data(c) EXCEPT !.config = updatedConfig]

(***************************************************************************)
(* The handlers of the component.                                          *)
(***************************************************************************)
\* lines 65-68: the guard, setFormData and the call of updateConfig
handleChange(updatedConfig, ref, fresh) ==
    IF config = Undefined
    THEN UNCHANGED <<formData, formRef, isDirty, inflight, sent>>
    ELSE /\ SetFormData(updatedConfig, ref, fresh)
         /\ inflight' = inflight \cup {[id |-> sent + 1, body |-> Merged(config, updatedConfig)]}
         /\ sent' = sent + 1

\* a continuation without setDirty(false)
AfterAwaitKeepsDirty == isDirty' = isDirty

\* line 69, after the await: the promise of the mutation's trigger resolves on
\* success and on failure alike; a component that has thrown takes no state
AfterAwait == isDirty' = IF configError THEN isDirty ELSE FALSE

\* a restoreConfig that also persists what it restores
restoreConfigAndSave(c, ref) == handleChange(c, ref, formRef # ref)

\* a restoreConfig whose setFormData sets off no effect
restoreConfigNoEffect(c, ref) == SetFormData(c, ref, FALSE) /\ UNCHANGED <<inflight, sent>>

\* lines 91-94
restoreConfig(c, ref) == SetFormData(c, ref, formRef # ref) /\ UNCHANGED <<inflight, sent>>

(***************************************************************************)
(* The steps of the form.                                                  *)
(***************************************************************************)
\* useGetConfigQuery delivers the document
ConfigLoaded ==
    /\ isLoadingConfig
    /\ isLoadingConfig' = FALSE
    /\ config' = <<"data", server>>
    /\ QuerySettled(config')
    /\ event' = "load"
    /\ UNCHANGED <<configError, inflight, sent, server, refetching>>

\* useGetConfigQuery fails: line 55 throws at the next render
ConfigFailed ==
    /\ isLoadingConfig \/ refetching
    /\ ~configError
    /\ configError' = TRUE
    /\ isLoadingConfig' = FALSE
    /\ refetching' = FALSE
    /\ event' = "loadError"
    /\ UNCHANGED <<config, formData, formRef, isDirty, inflight, sent, server>>

\* the refetch the mutation's invalidation started delivers the remote document;
\* data structurally equal to the cached data leaves the cache as it is
Refetched ==
    /\ refetching
    /\ ~configError
    /\ refetching' = FALSE
    /\ IF <<"data", server>> = config
       THEN UNCHANGED <<config, formData, formRef, isDirty>>
       ELSE /\ config' = <<"data", server>>
            /\ QuerySettled(config')
    /\ event' = "refetch"
    /\ UNCHANGED <<isLoadingConfig, configError, inflight, sent, server>>

\* the Form's onChange, lines 161-163: RJSF hands over a new object
FieldChange(v) ==
    /\ Rendered
    /\ SetFormData(v, "form", TRUE)
    /\ event' = "change"
    /\ UNCHANGED <<isLoadingConfig, configError, config, inflight, sent, server, refetching>>

\* the Save button, lines 124-126
SaveClick ==
    /\ Rendered
    /\ isDirty
    /\ sent < MaxSaves
    /\ IF formData = Undefined
       THEN handleChange(Obj(EmptyMap), "form", TRUE)
       ELSE handleChange(formData, formRef, FALSE)
    /\ event' = "save"
    /\ UNCHANGED <<isLoadingConfig, configError, config, server, refetching>>

\* the Form's onSubmit, lines 164-167: data.formData is the form's document, as
\* the same object or as a copy of it
Submit ==
    /\ Rendered
    /\ sent < MaxSaves
    /\ \E fresh \in BOOLEAN :
          handleChange(formData, IF fresh THEN "form" ELSE formRef, fresh)
    /\ event' = "submit"
    /\ UNCHANGED <<isLoadingConfig, configError, config, server, refetching>>

\* the remote service stores the document of request r and answers
UpdateFulfilled(r) ==
    /\ r \in inflight
    /\ inflight' = inflight \ {r}
    /\ server' = r.body
    /\ AfterAwait
    /\ refetching' = (refetching \/ ~configError)
    /\ event' = "saved"
    /\ UNCHANGED <<isLoadingConfig, configError, config, formData, formRef, sent>>

\* the remote service refuses request r
UpdateRejected(r) ==
    /\ r \in inflight
    /\ inflight' = inflight \ {r}
    /\ AfterAwait
    /\ event' = "saveFailed"
    /\ UNCHANGED <<isLoadingConfig, configError, config, formData, formRef, sent,
                   server, refetching>>

\* the Reset button, lines 127-133
Reset ==
    /\ Rendered
    /\ restoreConfig(Data(config).config, "config")
    /\ event' = "reset"
    /\ UNCHANGED <<isLoadingConfig, configError, config, server, refetching>>

\* the Load defaults button, lines 134-140
LoadDefaults ==
    /\ Rendered
    /\ restoreConfig(defaults, "defaults")
    /\ event' = "loadDefaults"
    /\ UNCHANGED <<isLoadingConfig, configError, config, server, refetching>>

InitForm ==
    /\ isLoadingConfig = TRUE
    /\ configError = FALSE
    /\ config = Undefined
    /\ formData = Undefined
    /\ formRef = "none"
    /\ isDirty = FALSE
    /\ inflight = {}
    /\ sent = 0
    /\ server \in {[config |-> c, jsonSchema |-> d.jsonSchema, uiSchema |-> d.uiSchema] :
                        c \in ServerConfigs, d \in ServedSchemas}
    /\ refetching = FALSE
    /\ event = "mount"

InitIdle ==
    /\ schema = Undefined
    /\ stack = << >>
    /\ heap = InitHeap
    /\ errors = 0
    /\ result = Undefined
    /\ pc = "idle"

Init == InitForm /\ InitIdle

Next ==
    \/ ConfigLoaded /\ UNCHANGED extractVars
    \/ ConfigFailed /\ UNCHANGED extractVars
    \/ Refetched /\ UNCHANGED extractVars
    \/ (\E v \in FormValues : FieldChange(v)) /\ UNCHANGED extractVars
    \/ SaveClick /\ UNCHANGED extractVars
    \/ Submit /\ UNCHANGED extractVars
    \/ (\E r \in inflight : UpdateFulfilled(r)) /\ UNCHANGED extractVars
    \/ (\E r \in inflight : UpdateRejected(r)) /\ UNCHANGED extractVars
    \/ Reset /\ UNCHANGED extractVars
    \/ LoadDefaults /\ UNCHANGED extractVars

Spec == Init /\ [][Next]_vars

(***************************************************************************)
(* One call of extractDefaultsFromSchema, a call of traverse at a time.    *)
(***************************************************************************)
DefaultValues == {Undefined, Num(0), Ref(SchemaObject)} \cup Values
BLeaves == {Leaf(v) : v \in Values}
XNodes ==
    {Node(d, p, r) : d \in DefaultValues,
                     p \in {Undefined} \cup {Props(<< <<"b", l>> >>) : l \in BLeaves}
                            \cup {Props(<< <<"c", Leaf(Num(1))>>, <<"b", l>> >>) : l \in BLeaves},
                     r \in {Undefined, RefY}}
YNodes == {Node(d, Undefined, r) : d \in {Undefined, Num(1)},
                                   r \in {Undefined, RefY, RefZ, RefOther}}
RootProperties ==
    {Undefined} \cup {Props(<< <<"x", n>> >>) : n \in XNodes}
        \cup {Props(<< <<"x", n>>, <<"y", m>> >>) : n \in XNodes, m \in YNodes}
DefNodes ==
    {Node(d, p, r) : d \in {Undefined, Num(2), Ref(SchemaObject)},
                     p \in {Undefined, Props(<< <<"b", Leaf(Num(2))>> >>)},
                     r \in {Undefined, RefW}}
Schemas ==
    LET roots == {Node(d, p, Undefined) : d \in {Undefined, Num(1)}, p \in RootProperties}
    IN  roots \cup {WithDefs(n, [Y |-> y, W |-> Leaf(Num(1))]) : n \in roots, y \in DefNodes}

State == [stack |-> stack, heap |-> heap, errors |-> errors]
SetState(st) == stack' = st.stack /\ heap' = st.heap /\ errors' = st.errors

\* lines 177-178 and 216: defaults = {}, traverse(schema)
Call ==
    /\ pc = "idle"
    /\ schema # Undefined
    /\ SetState(StartState(schema[2]))
    /\ pc' = "run"
    /\ UNCHANGED <<schema, result>>

\* lines 180-189: one call of traverse
TraverseCall ==
    /\ pc = "run"
    /\ stack # << >>
    /\ Head(stack)[1] = "traverse"
    /\ SetState(traverse(State, Head(stack)[2], Head(stack)[3]))
    /\ UNCHANGED <<schema, result, pc>>

\* lines 191-199: the $ref branch of that call
RefBranch ==
    /\ pc = "run"
    /\ stack # << >>
    /\ Head(stack)[1] = "resolve"
    /\ SetState(resolve(State, schema[2], Head(stack)[2], Head(stack)[3]))
    /\ UNCHANGED <<schema, result, pc>>

\* line 217: return defaults
Return ==
    /\ pc = "run"
    /\ stack = << >>
    /\ result' = Deref(heap, Ref(DefaultsRoot))
    /\ pc' = "done"
    /\ UNCHANGED <<schema, stack, heap, errors>>

InitCall ==
    /\ schema \in {<<"schema", n>> : n \in Schemas}
    /\ stack = << >>
    /\ heap = InitHeap
    /\ errors = 0
    /\ result = Undefined
    /\ pc = "idle"

InitUnmounted ==
    /\ InitForm
    /\ server = [config |-> Obj([x |-> Num(1)]), jsonSchema |-> Undefined,
                 uiSchema |-> Obj(EmptyMap)]

InitExtract == InitUnmounted /\ InitCall

NextExtract ==
    \/ Call /\ UNCHANGED formVars
    \/ TraverseCall /\ UNCHANGED formVars
    \/ RefBranch /\ UNCHANGED formVars
    \/ Return /\ UNCHANGED formVars

SpecExtract == InitExtract /\ [][NextExtract]_vars

(***************************************************************************)
(* Properties of the form, under Spec.                                     *)
(***************************************************************************)
EditEvents == {"change", "save", "submit", "reset", "loadDefaults"}

\* C1: at most one updateConfig request is in flight at any time.
C1_OneUpdateInFlight == Cardinality(inflight) <= 1

\* C2: a failed updateConfig leaves formData as it was and isDirty true, and
\* sends no further request.
C2_FailedSaveStaysDirty ==
    [][(event' = "saveFailed" /\ ~configError /\ isDirty)
          => (formData' = formData /\ isDirty' /\ sent' = sent)]_vars

C4_ChangeSetsDirty ==
    (event = "change" /\ inflight = {})
        => /\ isDirty = (formData # Data(config).config)
           /\ isDirty = (deepDiff(Data(config).config, formData) # {})

C4_Witness ==
    /\ event = "change"
    /\ inflight = {}
    /\ Data(config).config = Obj([x |-> Num(1)])
    /\ formData = Obj([x |-> Num(2)])
    /\ isDirty

\* C5: after reset formData is the last-synced config, their deepDiff is empty
\* and isDirty is false, whatever formData was before.
C5_ResetIsClean ==
    event = "reset"
        => /\ formData = Data(config).config
           /\ deepDiff(Data(config).config, formData) = {}
           /\ ~isDirty

\* a reset of a form whose edited document is still being saved
C5_Witness ==
    /\ event = "reset"
    /\ \E r \in inflight : r.body.config # formData

\* C6: an updateConfig request is sent only from Ready(dirty): with the
\* document loaded, isDirty true and no save in progress.
C6_SaveOnlyFromReadyDirty ==
    [][sent' > sent => (Rendered /\ isDirty /\ inflight = {})]_vars

\* C7: a field change, a reset and a load of the defaults send no request and
\* leave the last-synced document alone: only formData and isDirty change.
C7_EditsAreLocal ==
    [][event' \in {"change", "reset", "loadDefaults"}
          => UNCHANGED <<inflight, sent, config, server, refetching,
                         isLoadingConfig, configError>>]_vars

C7_Witness ==
    /\ event = "loadDefaults"
    /\ formData = Obj([x |-> Num(1), y |-> Num(2)])
    /\ isDirty

\* C8: every updateConfig request carries formData as it was when the save was
\* invoked, merged into the fetched document: jsonSchema and uiSchema go out as
\* fetched, and the uiSchema the form was rendered with is never sent.
C8_RequestIsMergedDocument ==
    [][sent' > sent
          => \E r \in inflight' \ inflight :
                /\ r.body.config = formData
                /\ r.body.jsonSchema = Data(config).jsonSchema
                /\ r.body.uiSchema = Data(config).uiSchema
                /\ r.body.uiSchema # RenderedUiSchema(config, isDirty)]_vars

C8_Witness ==
    \E r \in inflight :
        /\ r.body.config # Data(config).config
        /\ r.body.jsonSchema # Undefined
        /\ r.body.uiSchema # Obj(EmptyMap)

\* C9: while the configuration loads no edit operation takes place; after a
\* failed load the form is never rendered again and no request is sent.
C9_LoadingDefersAndFailureIsTerminal ==
    [][/\ isLoadingConfig => event' \notin EditEvents
       /\ configError => (configError' /\ ~Rendered' /\ sent' = sent /\ formData' = formData)]_vars

C9_Witness ==
    /\ configError
    /\ event = "loadError"
    /\ config = Undefined

(***************************************************************************)
(* Properties of extractDefaultsFromSchema, under SpecExtract.             *)
(***************************************************************************)
IsPrefix(p, q) == Len(p) <= Len(q) /\ SubSeq(q, 1, Len(p)) = p

\* the value at a path of a document, Undefined when there is none
RECURSIVE Lookup(_, _)
Lookup(doc, path) ==
    IF path = << >> THEN doc
    ELSE IF IsObj(doc) /\ Head(path) \in DOMAIN doc[2]
         THEN Lookup(doc[2][Head(path)], Tail(path))
         ELSE Undefined

\* the path of every key of a document, at every depth
RECURSIVE KeyPaths(_)
KeyPaths(doc) ==
    IF IsObj(doc)
    THEN UNION {{<<k>>} \cup {<<k>> \o q : q \in KeyPaths(doc[2][k])} : k \in DOMAIN doc[2]}
    ELSE {}

\* the target of a $ref of the form #/$defs/<name> with <name> in the root's $defs
RefTarget(rootSchema, ref) ==
    IF /\ rootSchema.defs # Undefined
       /\ Len(ref[2]) = 3 /\ ref[2][1] = "#" /\ ref[2][2] = "$defs"
       /\ ref[2][3] \in DOMAIN rootSchema.defs[2]
    THEN <<"node", rootSchema.defs[2][ref[2][3]]>>
    ELSE Undefined

\* the <<path, value>> pairs a schema declares: a default at a node, at the
\* path of its property keys, a $ref adding no key
RECURSIVE Declared(_, _, _)
Declared(rootSchema, node, path) ==
    (IF node.default # Undefined THEN {<<path, Deref(InitHeap, node.default)>>} ELSE {})
    \cup (IF node.properties # Undefined
          THEN UNION {Declared(rootSchema, node.properties[2][i][2],
                               Append(path, node.properties[2][i][1]))
                        : i \in 1..Len(node.properties[2])}
          ELSE {})
    \cup (IF node.ref # Undefined /\ RefTarget(rootSchema, node.ref) # Undefined
          THEN Declared(rootSchema, RefTarget(rootSchema, node.ref)[2], path)
          ELSE {})

DeclaredDefaults == Declared(schema[2], schema[2], << >>)

\* no two declarations at one path or at a path and below it
Unambiguous(D) == \A d, e \in D : d # e => ~IsPrefix(d[1], e[1])

\* the returned document has every declared path with its declared value and
\* no key outside those paths
ExactlyDeclared(D) ==
    /\ \A d \in D : Lookup(result, d[1]) = d[2]
    /\ \A q \in KeyPaths(result) : \E d \in D : IsPrefix(q, d[1]) \/ IsPrefix(d[1], q)

\* C10: the returned defaults document contains exactly the paths at which a
\* default is declared (directly or through a resolvable $ref), each with its
\* declared value, and no other key.
C10_DefaultsAreExactlyDeclared ==
    (pc = "done" /\ Unambiguous(DeclaredDefaults)) => ExactlyDeclared(DeclaredDefaults)

\* the same for the schemas that declare no default at the root
C10_ExceptRootDefault ==
    (pc = "done" /\ Unambiguous(DeclaredDefaults) /\ schema[2].default = Undefined)
        => ExactlyDeclared(DeclaredDefaults)

\* the schema of the specification's example, extracted
C10_Example ==
    (pc = "done" /\ schema[2] = ExampleSchema)
        => result = Obj([x |-> Num(1), y |-> Num(2)])

\* the calls of traverse a node stands for: itself, its properties' and, through
\* a resolvable $ref, its target's; an unresolvable $ref counts as one step
RECURSIVE Calls(_, _)
Calls(rootSchema, node) ==
    LET SumTo[i \in 0..(IF node.properties = Undefined THEN 0 ELSE Len(node.properties[2]))] ==
            IF i = 0 THEN 0
            ELSE SumTo[i - 1] + Calls(rootSchema, node.properties[2][i][2])
        viaRef == IF node.ref = Undefined THEN 0
                  ELSE IF ResolveRef(rootSchema, node.ref) = Undefined THEN 1
                  ELSE 1 + Calls(rootSchema, ResolveRef(rootSchema, node.ref)[2])
    IN  1 + SumTo[IF node.properties = Undefined THEN 0 ELSE Len(node.properties[2])] + viaRef

\* the work a frame stands for
FrameCalls(rootSchema, f) ==
    IF f[1] = "traverse" THEN Calls(rootSchema, f[2])
    ELSE IF ResolveRef(rootSchema, f[2]) = Undefined THEN 1
    ELSE 1 + Calls(rootSchema, ResolveRef(rootSchema, f[2])[2])

\* the work left: finite for a schema whose $ref links have no cycle
RECURSIVE WorkLeft(_, _)
WorkLeft(rootSchema, frames) ==
    IF frames = << >> THEN 0
    ELSE FrameCalls(rootSchema, Head(frames)) + WorkLeft(rootSchema, Tail(frames))

\* C11: the traversal of a schema without $ref cycles terminates: every step
\* of it lessens the finite work left, and with none left it returns.
C11_TraversalTerminates ==
    [][pc = "run" => \/ WorkLeft(schema[2], stack') < WorkLeft(schema[2], stack)
                     \/ (stack = << >> /\ pc' = "done")]_vars

\* a $ref chain of two links, x -> Y -> W, followed to its end
C11_Witness ==
    /\ pc = "done"
    /\ errors = 0
    /\ schema[2].properties = Props(<< <<"x", Node(Undefined, Undefined, RefY)>> >>)
    /\ schema[2].defs # Undefined
    /\ schema[2].defs[2]["Y"].ref = RefW
    /\ result = Obj([x |-> Num(1)])

\* a schema without its unresolvable $ref links
RECURSIVE Resolvable(_, _)
Resolvable(rootSchema, node) ==
    [default    |-> node.default,
     properties |-> IF node.properties = Undefined THEN Undefined
                    ELSE Props([i \in 1..Len(node.properties[2]) |->
                                  <<node.properties[2][i][1],
                                    Resolvable(rootSchema, node.properties[2][i][2])>>]),
     ref        |-> IF node.ref # Undefined /\ ResolveRef(rootSchema, node.ref) = Undefined
                    THEN Undefined ELSE node.ref,
     defs       |-> IF node.defs = Undefined THEN Undefined
                    ELSE <<"map", [k \in DOMAIN node.defs[2] |->
                                     Resolvable(rootSchema, node.defs[2][k])]>>]

UnresolvedStep ==
    /\ pc = "run"
    /\ stack # << >>
    /\ Head(stack)[1] = "resolve"
    /\ ResolveRef(schema[2], Head(stack)[2]) = Undefined

\* C12: a $ref that cannot be resolved does not end the extraction: the step
\* that meets it writes nothing and the traversal goes on with the frames that
\* wait; the returned document is the one of the same schema without the
\* unresolvable links, so every default declared beside them, visited before or
\* after, is there with its declared value.
C12_UnresolvedRefIsSkipped ==
    /\ [][UnresolvedStep =>
            /\ heap' = heap
            /\ stack' = Tail(stack)
            /\ pc' = "run"]_vars
    /\ []((pc = "done" /\ errors > 0) =>
            /\ result = extractDefaultsFromSchema(Resolvable(schema[2], schema[2]))
            /\ (Unambiguous(DeclaredDefaults) /\ schema[2].default = Undefined)
                   => ExactlyDeclared(DeclaredDefaults))

\* x's $ref is unresolved ($defs is missing); the sibling y, visited after it,
\* has its default in the result
C12_Witness ==
    /\ pc = "done"
    /\ errors = 1
    /\ schema[2].defs = Undefined
    /\ schema[2].properties[2][1][2].ref = RefY
    /\ schema[2].properties[2][1][2].properties = Undefined
    /\ schema[2].properties[2][1][2].default = Undefined
    /\ result = Obj([y |-> Num(1)])

\* the defaults document as it stands during the traversal
Defaults == Deref(heap, Ref(DefaultsRoot))

\* the step writes a default, and the path setDefault writes it at
WritesDefault ==
    /\ pc = "run"
    /\ stack # << >>
    /\ Head(stack)[1] = "traverse"
    /\ Head(stack)[2].default # Undefined

WrittenPath == IF Head(stack)[3] = << >> THEN <<"undefined">> ELSE Head(stack)[3]

\* neither path is at or below the other: siblings, and cousins at any depth
Beside(p, q) == ~IsPrefix(p, q) /\ ~IsPrefix(q, p)

\* C13: a write of a default at a path leaves the value at every path beside
\* it as it was, a sibling under the same parent in particular; a step that
\* writes no default leaves the whole document as it was.
C13_SiblingWritesAreKept ==
    [][IF WritesDefault
       THEN \A q \in KeyPaths(Defaults) :
                Beside(q, WrittenPath) => Lookup(Defaults', q) = Lookup(Defaults, q)
       ELSE pc = "run" => Defaults' = Defaults]_vars

\* [x, c] was written, then [x, b], and both are in the document
C13_Witness ==
    /\ pc = "run"
    /\ schema[2].properties # Undefined
    /\ schema[2].properties[2][1][2].default = Undefined
    /\ schema[2].properties[2][1][2].ref = Undefined
    /\ Lookup(Defaults, <<"x", "c">>) = Num(1)
    /\ Lookup(Defaults, <<"x", "b">>) = Num(2)

\* the default a node's property declares, Undefined when it has no such property
PropertyDefault(node, key) ==
    IF Index(<<"node", node>>, "properties") = Undefined THEN Undefined
    ELSE LET hit == Index(node.properties, key)
         IN  IF hit = Undefined THEN Undefined ELSE hit[2].default

\* the root's property x has properties of its own and a $ref that resolves to
\* a node without a further $ref
XNode == schema[2].properties[2][1][2]
XTarget == ResolveRef(schema[2], XNode.ref)[2]
PropertiesAndRef ==
    /\ schema # Undefined
    /\ schema[2].properties # Undefined
    /\ XNode.properties # Undefined
    /\ XNode.ref # Undefined
    /\ ResolveRef(schema[2], XNode.ref) # Undefined
    /\ XTarget.ref = Undefined

C15_EditDuringSaveStaysDirty ==
    [][(event = "change" /\ event' = "saved" /\ ~configError)
          => \A r \in inflight \ inflight' :
                formData' # r.body.config => isDirty']_vars

\* C16: whenever the query delivers a configuration that differs from the one
\* it held, at the initial load or at a refetch, formData becomes the fetched
\* config, whatever the form held, and isDirty is false after the effects.
C16_FetchedConfigReplacesForm ==
    [][config' # config
          => (~isLoadingConfig' /\ formData' = Data(config').config /\ ~isDirty')]_vars

\* a refetch after a save has replaced the form's document, an edit whose own
\* save has no response yet, by the fetched one
C16_Witness ==
    /\ event = "refetch"
    /\ Data(config) = server
    /\ formData = Data(config).config
    /\ ~isDirty
    /\ \E r \in inflight : r.body.config # formData

\* C17: extractDefaultsFromSchema leaves its input as it was: every object a
\* schema's default points to holds, at every step and at the return, what it
\* held at the call, though the output refers to it until a write below its
\* path replaces it there by a copy.
C17_SchemaIsNotMutated ==
    /\ \A a \in DOMAIN SchemaHeap : a \in DOMAIN heap /\ heap[a] = SchemaHeap[a]
    /\ (pc = "done" /\ heap[DefaultsRoot] # EmptyMap)
          => \A k \in DOMAIN heap[DefaultsRoot] :
                IsRef(heap[DefaultsRoot][k]) /\ heap[DefaultsRoot][k][2] \in DOMAIN SchemaHeap
                    => result[2][k] = Deref(InitHeap, heap[DefaultsRoot][k])

\* x's default is the schema's object { c: 1 } and x has a property b with a
\* default: b was written below x, into a copy
C17_Witness ==
    /\ pc = "done"
    /\ schema[2].properties # Undefined
    /\ XNode.default = Ref(SchemaObject)
    /\ PropertyDefault(XNode, "b") = Num(2)
    /\ XNode.ref = Undefined
    /\ result[2]["x"] = Obj([c |-> Num(1), b |-> Num(2)])
    /\ heap[SchemaObject] = [c |-> Num(1)]
    /\ heap[DefaultsRoot]["x"] # Ref(SchemaObject)

====
